---- MODULE Spec2Model ----
(***************************************************************************)
(* Position-exit monitor (src/main.py): the per-row exit decision          *)
(* (process_row), the reconciliation loop over a sheet whose rows are      *)
(* deleted while it is traversed (run_once), and the polling loop (main).  *)
(*                                                                         *)
(* Numbers.  A Python float holding a money amount is modelled as an exact *)
(* integer number of ticks, one tick being 0.2 micro-dollars, so that      *)
(* f"{price:.6f}" (a rounding to whole micro-dollars) is not the identity  *)
(* and never meets a tie.  Comparisons are the exact ones; the prices the  *)
(* model feeds in are ones on which Python's float arithmetic agrees.      *)
(***************************************************************************)
EXTENDS Integers, Sequences, FiniteSets, TLC

VARIABLES
    sheet,      \* the worksheet: a sequence of rows, row 1 being the header
    pc,         \* "sleep": main is between passes; "loop": inside run_once's while
    row_idx,    \* run_once's cursor
    last_row,   \* run_once's tracked live-row count
    passes,     \* number of passes main has started
    passEnd,    \* how the latest pass ended: "none", "returned", "raised"
    last,       \* what the latest process_row call did (history)
    startIds,   \* identities of the data rows 2..N at the start of the pass (history)
    visits,     \* per row identity: process_row calls in the current pass (history)
    accepted,   \* identities whose sell order the venue accepted in the current pass (history)
    market      \* the environment: moving freely, or one quote held steady (see Moving)

vars == <<sheet, pc, row_idx, last_row, passes, passEnd, last, startIds, visits, accepted,
          market>>

-----------------------------------------------------------------------------
(* Bounds of the model *)

MaxRows == 3            \* data rows of the sheets the loop specification starts on
MaxPasses == 3          \* passes main starts before the model stops it
MaxPriceFailures == 6   \* leading failures the price feed may produce for one call

-----------------------------------------------------------------------------
(* Environment defaults, src/main.py:31-33, and the retry bound, :89 *)

STOP_LOSS_PCT == 3
PROFIT_ARM_PCT == 5
TRAIL_PCT == 2
MaxAttempts == 5

-----------------------------------------------------------------------------
(* Number representation *)

Micro == 2 + 3                   \* ticks in one micro-dollar (1e-6)
Dollar == Micro * 1000000        \* ticks in one dollar
Cents(c) == c * (Dollar \div 100)
Limb == 100 * 100

\* The sign of a*x - b*y, computed in two limbs so that no intermediate
\* product leaves 32 bits (|a|, |b| <= 100).
CmpScaled(a, x, b, y) ==
    LET D  == a * (x \div Limb) - b * (y \div Limb)
        R  == a * (x % Limb) - b * (y % Limb)
        Dn == D + (R \div Limb)
        Rn == R % Limb
    IN  IF Dn > 0 THEN 1 ELSE IF Dn < 0 THEN -1 ELSE IF Rn > 0 THEN 1 ELSE 0

None == [some |-> FALSE, v |-> 0]
Some(x) == [some |-> TRUE, v |-> x]

-----------------------------------------------------------------------------
(* Cells.  A cost or high-water-mark cell is empty, whitespace, some       *)
(* non-numeric text, or the text of a number (val, in ticks).              *)

EmptyCell == [kind |-> "empty", val |-> 0]
BlankCell == [kind |-> "blank", val |-> 0]
TextCell == [kind |-> "text", val |-> 0]
NumCell(v) == [kind |-> "num", val |-> v]

\* float(s) if s.strip() else None; None when float() raises
parse_float_or_none(s) ==
    IF s.kind = "num" THEN Some(s.val) ELSE None

\* f"{price:.6f}": the nearest whole micro-dollar (no tick count is a tie)
Format6(price) == NumCell(((price + (Micro \div 2)) \div Micro) * Micro)

\* (value or "").strip().upper() on the ticker cells the model uses
StripUpper(s) ==
    CASE s = "" -> ""
      [] s = "  " -> ""
      [] s = " abc " -> "ABC"
      [] OTHER -> s

\* (to - from) / from * 100 if from else 0.0, kept as the exact fraction
\* 100 * num / den
pct_change(from_price, to_price) ==
    IF from_price # 0
    THEN [num |-> to_price - from_price, den |-> from_price]
    ELSE [num |-> 0, den |-> 1]

\* change_pct >= k  and  change_pct <= k, for an integer k
PctGeq(pct, k) ==
    IF pct.den > 0 THEN CmpScaled(100, pct.num, k, pct.den) >= 0
                   ELSE CmpScaled(100, pct.num, k, pct.den) <= 0
PctLeq(pct, k) ==
    IF pct.den > 0 THEN CmpScaled(100, pct.num, k, pct.den) <= 0
                   ELSE CmpScaled(100, pct.num, k, pct.den) >= 0

\* Mutant of TrailHit: the comparison made strict
TrailHitStrict(price, hwm) == CmpScaled(100, price, 100 - TRAIL_PCT, hwm) < 0

\* Mutant of TrailHit: no trailing distance (TRAIL_PCT taken as 0)
TrailHitNoDistance(price, hwm) == CmpScaled(100, price, 100, hwm) <= 0

\* price <= hwm * (1 - TRAIL_PCT / 100)
TrailHit(price, hwm) == CmpScaled(100, price, 100 - TRAIL_PCT, hwm) <= 0

-----------------------------------------------------------------------------
(* Collaborators *)

\* get_position_qty: the held quantity, 0.0 when the lookup raises
get_position_qty(res) == IF res.ok THEN res.qty ELSE 0

\* Mutant of get_latest_trade_price: one attempt more before giving up
get_latest_trade_price_6(fails, price) ==
    IF fails < MaxAttempts + 1
    THEN [ok |-> TRUE, price |-> price, attempts |-> fails + 1]
    ELSE [ok |-> FALSE, price |-> 0, attempts |-> MaxAttempts + 1]

\* get_latest_trade_price under @retry(stop_after_attempt(5)): the feed fails
\* `fails` times in a row and then answers `price`
get_latest_trade_price(fails, price) ==
    IF fails < MaxAttempts
    THEN [ok |-> TRUE, price |-> price, attempts |-> fails + 1]
    ELSE [ok |-> FALSE, price |-> 0, attempts |-> MaxAttempts]

\* The store calls one process_row can make, in the order it makes them.  A
\* fault [at, sticky] makes call `at` raise, and every later call too when
\* sticky (an outage) rather than transient.
SiteTicker == 1
SiteCost == 2
SiteHwmRead == 3
SiteHwmWrite == 4
SiteWrite == 5          \* first write_row_cells: calls 5, 6, 7
SiteDelete == 8
SiteErrWrite == 9       \* write_row_cells in an except handler: calls 9, 10, 11
NoFault == [at |-> 0, sticky |-> FALSE]
Fails(f, site) == f.at # 0 /\ (f.at = site \/ (f.sticky /\ site > f.at))

\* ws.update_cell on one cell of row i
SetCell(ws, i, col, v) == [ws EXCEPT ![i] = [ws[i] EXCEPT ![col] = v]]

\* write_row_cells: three update_cell calls, the first at store call `site`;
\* n is the number of cells written before it returned or raised
write_row_cells(ws, i, action, trigger, f, site) ==
    IF Fails(f, site) THEN [ws |-> ws, raised |-> TRUE, n |-> 0]
    ELSE LET w1 == SetCell(ws, i, "action", action) IN
    IF Fails(f, site + 1) THEN [ws |-> w1, raised |-> TRUE, n |-> 1]
    ELSE LET w2 == SetCell(w1, i, "trigger", trigger) IN
    IF Fails(f, site + 2) THEN [ws |-> w2, raised |-> TRUE, n |-> 2]
    ELSE [ws |-> SetCell(w2, i, "time", "ts"), raised |-> FALSE, n |-> 3]

\* ws.delete_rows(i): later rows shift up by one
delete_rows(ws, i) == SubSeq(ws, 1, i - 1) \o SubSeq(ws, i + 1, Len(ws))

\* remove_row: delete_rows with its exception swallowed
remove_row(ws, i, f) ==
    IF Fails(f, SiteDelete) THEN [ws |-> ws, deleted |-> FALSE]
    ELSE [ws |-> delete_rows(ws, i), deleted |-> TRUE]

\* ws.col_values(COL_TICKER): the column down to its last non-empty cell
col_values(ws) ==
    LET filled == {i \in 1..Len(ws) : ws[i].ticker # ""}
        n == IF filled = {} THEN 0 ELSE CHOOSE i \in filled : \A j \in filled : j <= i
    IN  [i \in 1..n |-> ws[i].ticker]

-----------------------------------------------------------------------------
(* process_row.  The result carries the sheet it leaves, what it returned  *)
(* (ret: "None", "True", "False", or "raise" when an exception escapes),   *)
(* and a record of what it consulted and did.  The trigger note is kept as *)
(* its kind: "Invalid cost", "Qty=0", "ERR" (the price error's text),      *)
(* "DELTA" (the change/price note), "HWM hit", "TRAIL: err", "STOP: err".  *)

\* place_market_sell: submits a market sell for qty; ok = the venue accepted it
place_market_sell(orderOk, qty) == [ok |-> orderOk, qty |-> qty]

Eval0(ws, i, inp) ==
    [ws |-> ws, ret |-> "None", id |-> ws[i].id, idx |-> i,
     held |-> get_position_qty(inp.qty), feedFails |-> inp.fails,
     ticker |-> "", costRead |-> FALSE, cost |-> None,
     qtyAsked |-> FALSE, qty |-> 0,
     priceAsked |-> FALSE, attempts |-> 0, priceOk |-> FALSE, price |-> 0,
     hwmBefore |-> ws[i].hwm, actionBefore |-> ws[i].action, hwmRead |-> None,
     decided |-> FALSE, change |-> pct_change(0, 0), armAction |-> "",
     hwmArm |-> None, hwmWritten |-> FALSE,
     sellKind |-> "", orderQty |-> 0, orderAccepted |-> FALSE, deleted |-> FALSE,
     action |-> "", trigger |-> "", w1 |-> 0, w2 |-> 0, writeCalls |-> 0]

\* write_row_cells(action, trigger) followed by `return ret`, outside any try
Outcome(e, action, trigger, f, ret) ==
    LET w == write_row_cells(e.ws, e.idx, action, trigger, f, SiteWrite)
    IN  [e EXCEPT !.ws = w.ws,
                  !.ret = IF w.raised THEN "raise" ELSE ret,
                  !.action = IF w.n >= 1 THEN action ELSE "",
                  !.trigger = IF w.n >= 2 THEN trigger ELSE "",
                  !.w1 = w.n, !.writeCalls = 1]

\* The try/except of a sell: place_market_sell, write_row_cells, remove_row,
\* return True; any exception of the first two lands in the handler, which
\* writes SELL ERROR and returns False
Sell(e, kind, okAction, okNote, orderOk, f) ==
    LET order == place_market_sell(orderOk, e.qty)
        e1 == [e EXCEPT !.sellKind = kind, !.orderQty = order.qty,
                        !.orderAccepted = order.ok]
        w  == write_row_cells(e.ws, e.idx, okAction, okNote, f, SiteWrite)
    IN  IF order.ok /\ ~w.raised
        THEN LET rm == remove_row(w.ws, e.idx, f)
             IN  [e1 EXCEPT !.ws = rm.ws, !.deleted = rm.deleted, !.ret = "True",
                            !.action = okAction, !.trigger = okNote,
                            !.w1 = w.n, !.writeCalls = 1]
        ELSE LET ws1 == IF order.ok THEN w.ws ELSE e.ws
                 n1  == IF order.ok THEN w.n ELSE 0
                 note == IF kind = "TRAIL" THEN "TRAIL: err" ELSE "STOP: err"
                 x   == write_row_cells(ws1, e.idx, "SELL ERROR", note, f, SiteErrWrite)
             IN  [e1 EXCEPT !.ws = x.ws,
                            !.ret = IF x.raised THEN "raise" ELSE "False",
                            !.action = IF x.n >= 1 THEN "SELL ERROR"
                                       ELSE IF n1 >= 1 THEN okAction ELSE "",
                            !.trigger = IF x.n >= 2 THEN note
                                        ELSE IF n1 >= 2 THEN okNote ELSE "",
                            !.w1 = n1, !.w2 = x.n,
                            !.writeCalls = IF order.ok THEN 2 ELSE 1]

\* Mutant of Arm: the stale mark is not cleared when the profit has retreated
ArmNoClear(ws, i, change, price, hwm, f) ==
    IF PctGeq(change, PROFIT_ARM_PCT)
    THEN IF ~hwm.some \/ price > hwm.v
         THEN IF Fails(f, SiteHwmWrite)
              THEN [ws |-> ws, hwm |-> hwm, action |-> "", written |-> FALSE, raised |-> TRUE]
              ELSE [ws |-> SetCell(ws, i, "hwm", Format6(price)), hwm |-> Some(price),
                    action |-> "ARMED", written |-> TRUE, raised |-> FALSE]
         ELSE [ws |-> ws, hwm |-> hwm, action |-> "ARMED", written |-> FALSE, raised |-> FALSE]
    ELSE [ws |-> ws, hwm |-> None, action |-> "HOLD", written |-> FALSE, raised |-> FALSE]

\* Mutant of Arm: an armed row's mark is overwritten with every price
ArmOverwrite(ws, i, change, price, hwm, f) ==
    IF PctGeq(change, PROFIT_ARM_PCT)
    THEN IF Fails(f, SiteHwmWrite)
         THEN [ws |-> ws, hwm |-> hwm, action |-> "", written |-> FALSE, raised |-> TRUE]
         ELSE [ws |-> SetCell(ws, i, "hwm", Format6(price)), hwm |-> Some(price),
               action |-> "ARMED", written |-> TRUE, raised |-> FALSE]
    ELSE IF hwm.some
         THEN IF Fails(f, SiteHwmWrite)
              THEN [ws |-> ws, hwm |-> hwm, action |-> "", written |-> FALSE, raised |-> TRUE]
              ELSE [ws |-> SetCell(ws, i, "hwm", EmptyCell), hwm |-> None,
                    action |-> "HOLD", written |-> TRUE, raised |-> FALSE]
         ELSE [ws |-> ws, hwm |-> hwm, action |-> "HOLD", written |-> FALSE, raised |-> FALSE]

\* Mutant of Arm: the evaluation that clears a stale mark still reports ARMED
ArmLateHold(ws, i, change, price, hwm, f) ==
    IF PctGeq(change, PROFIT_ARM_PCT)
    THEN IF ~hwm.some \/ price > hwm.v
         THEN IF Fails(f, SiteHwmWrite)
              THEN [ws |-> ws, hwm |-> hwm, action |-> "", written |-> FALSE, raised |-> TRUE]
              ELSE [ws |-> SetCell(ws, i, "hwm", Format6(price)), hwm |-> Some(price),
                    action |-> "ARMED", written |-> TRUE, raised |-> FALSE]
         ELSE [ws |-> ws, hwm |-> hwm, action |-> "ARMED", written |-> FALSE, raised |-> FALSE]
    ELSE IF hwm.some
         THEN IF Fails(f, SiteHwmWrite)
              THEN [ws |-> ws, hwm |-> hwm, action |-> "", written |-> FALSE, raised |-> TRUE]
              ELSE [ws |-> SetCell(ws, i, "hwm", EmptyCell), hwm |-> None,
                    action |-> "ARMED", written |-> TRUE, raised |-> FALSE]
         ELSE [ws |-> ws, hwm |-> hwm, action |-> "HOLD", written |-> FALSE, raised |-> FALSE]

\* Mutant of Arm: below the arm threshold the mark is kept, in the cell and
\* for the trailing check
ArmKeepMark(ws, i, change, price, hwm, f) ==
    IF PctGeq(change, PROFIT_ARM_PCT)
    THEN IF ~hwm.some \/ price > hwm.v
         THEN IF Fails(f, SiteHwmWrite)
              THEN [ws |-> ws, hwm |-> hwm, action |-> "", written |-> FALSE, raised |-> TRUE]
              ELSE [ws |-> SetCell(ws, i, "hwm", Format6(price)), hwm |-> Some(price),
                    action |-> "ARMED", written |-> TRUE, raised |-> FALSE]
         ELSE [ws |-> ws, hwm |-> hwm, action |-> "ARMED", written |-> FALSE, raised |-> FALSE]
    ELSE [ws |-> ws, hwm |-> hwm, action |-> "HOLD", written |-> FALSE, raised |-> FALSE]

\* "Arm or raise high-water mark": the sheet, the in-memory hwm and the
\* candidate action it leaves; raised when the update_cell call raises
Arm(ws, i, change, price, hwm, f) ==
    IF PctGeq(change, PROFIT_ARM_PCT)
    THEN IF ~hwm.some \/ price > hwm.v
         THEN IF Fails(f, SiteHwmWrite)
              THEN [ws |-> ws, hwm |-> hwm, action |-> "", written |-> FALSE, raised |-> TRUE]
              ELSE [ws |-> SetCell(ws, i, "hwm", Format6(price)), hwm |-> Some(price),
                    action |-> "ARMED", written |-> TRUE, raised |-> FALSE]
         ELSE [ws |-> ws, hwm |-> hwm, action |-> "ARMED", written |-> FALSE, raised |-> FALSE]
    ELSE IF hwm.some
         THEN IF Fails(f, SiteHwmWrite)
              THEN [ws |-> ws, hwm |-> hwm, action |-> "", written |-> FALSE, raised |-> TRUE]
              ELSE [ws |-> SetCell(ws, i, "hwm", EmptyCell), hwm |-> None,
                    action |-> "HOLD", written |-> TRUE, raised |-> FALSE]
         ELSE [ws |-> ws, hwm |-> hwm, action |-> "HOLD", written |-> FALSE, raised |-> FALSE]

\* Lines 153-192: everything after the price has been resolved
Decide(e, inp) ==
    LET f == inp.fault
        hwm0 == parse_float_or_none(e.ws[e.idx].hwm)
        change == pct_change(e.cost.v, e.price)
        a == Arm(e.ws, e.idx, change, e.price, hwm0, f)
        e1 == [e EXCEPT !.hwmRead = hwm0, !.change = change]
        e2 == [e1 EXCEPT !.ws = a.ws, !.decided = TRUE, !.armAction = a.action,
                         !.hwmArm = a.hwm, !.hwmWritten = a.written]
    IN  IF Fails(f, SiteHwmRead) THEN [e EXCEPT !.ret = "raise"]
        ELSE IF a.raised THEN [e1 EXCEPT !.ret = "raise"]
        ELSE IF a.hwm.some /\ TrailHit(e.price, a.hwm.v)
             THEN Sell(e2, "TRAIL", "SELL: TRAIL", "HWM hit", inp.orderOk, f)
        ELSE IF PctLeq(change, -STOP_LOSS_PCT)
             THEN Sell(e2, "STOP", "SELL: STOP", "DELTA", inp.orderOk, f)
        ELSE Outcome(e2, a.action, "DELTA", f, "False")

\* Mutant of InvalidCost: `if cost is None`, a zero cost passing
InvalidCostNoneOnly(cost) == ~cost.some

\* `if not cost`: None and 0.0 are both falsy
InvalidCost(cost) == ~cost.some \/ cost.v = 0

\* Mutant of NoPosition: only a negative quantity counts as no position
NoPositionNegative(qty) == qty < 0

\* `if qty <= 0`
NoPosition(qty) == qty <= 0

process_row(ws, i, inp) ==
    LET f == inp.fault
        e0 == Eval0(ws, i, inp)
        ticker == StripUpper(ws[i].ticker)
        cost == parse_float_or_none(ws[i].cost)
        qty == get_position_qty(inp.qty)
        quote == get_latest_trade_price(inp.fails, inp.price)
        e1 == [e0 EXCEPT !.ticker = ticker]
        e2 == [e1 EXCEPT !.costRead = TRUE, !.cost = cost]
        e3 == [e2 EXCEPT !.qtyAsked = TRUE, !.qty = qty]
        e4 == [e3 EXCEPT !.priceAsked = TRUE, !.attempts = quote.attempts,
                         !.priceOk = quote.ok, !.price = quote.price]
    IN  IF Fails(f, SiteTicker) THEN [e0 EXCEPT !.ret = "raise"]
        ELSE IF ticker = "" THEN e1
        ELSE IF Fails(f, SiteCost) THEN [e1 EXCEPT !.ret = "raise"]
        ELSE IF InvalidCost(cost) THEN Outcome(e2, "SKIP", "Invalid cost", f, "None")
        ELSE IF NoPosition(qty) THEN Outcome(e3, "NO POSITION", "Qty=0", f, "None")
        ELSE IF ~quote.ok THEN Outcome(e4, "PRICE ERROR", "ERR", f, "None")
        ELSE Decide(e4, inp)

-----------------------------------------------------------------------------
(* run_once and main *)

NoEval ==
    [Eval0(<<[id |-> 0, hwm |-> EmptyCell, action |-> ""]>>, 1,
           [qty |-> [ok |-> FALSE, qty |-> 0], fails |-> 0])
        EXCEPT !.ws = <<>>, !.ret = "none"]

NoVisits == [i \in 0..MaxRows |-> 0]

\* Mutant of StartPass: the cursor starts on the header row
StartPassFromHeader ==
    /\ pc = "sleep"
    /\ passes < MaxPasses
    /\ passes' = passes + 1
    /\ startIds' = [k \in 1..(Len(col_values(sheet)) - 1) |-> sheet[k + 1].id]
    /\ visits' = NoVisits
    /\ accepted' = {}
    /\ last' = NoEval
    /\ \E colFails \in BOOLEAN :
          IF colFails
          THEN /\ pc' = "sleep" /\ passEnd' = "raised"
               /\ UNCHANGED <<row_idx, last_row>>
          ELSE LET n == Len(col_values(sheet)) IN
               /\ last_row' = n
               /\ row_idx' = 1
               /\ pc' = IF n < 2 THEN "sleep" ELSE "loop"
               /\ passEnd' = IF n < 2 THEN "returned" ELSE "none"
    /\ UNCHANGED <<sheet, market>>

\* Mutant of StartPass: an exception of run_once is not caught and ends main
StartPassUncaught ==
    /\ pc = "sleep"
    /\ passes < MaxPasses
    /\ passes' = passes + 1
    /\ startIds' = [k \in 1..(Len(col_values(sheet)) - 1) |-> sheet[k + 1].id]
    /\ visits' = NoVisits
    /\ accepted' = {}
    /\ last' = NoEval
    /\ \E colFails \in BOOLEAN :
          IF colFails
          THEN /\ pc' = "stopped" /\ passEnd' = "raised"
               /\ UNCHANGED <<row_idx, last_row>>
          ELSE LET n == Len(col_values(sheet)) IN
               /\ last_row' = n
               /\ row_idx' = 2
               /\ pc' = IF n < 2 THEN "sleep" ELSE "loop"
               /\ passEnd' = IF n < 2 THEN "returned" ELSE "none"
    /\ UNCHANGED <<sheet, market>>

\* main's loop starting a pass: run_once up to the while (lines 196-201).
\* col_values may raise (caught in main) and a sheet with fewer than 2 rows
\* in its ticker column makes run_once return at once.
StartPass ==
    /\ pc = "sleep"
    /\ passes < MaxPasses
    /\ passes' = passes + 1
    /\ startIds' = [k \in 1..(Len(col_values(sheet)) - 1) |-> sheet[k + 1].id]
    /\ visits' = NoVisits
    /\ accepted' = {}
    /\ last' = NoEval
    /\ \E colFails \in BOOLEAN :
          IF colFails
          THEN /\ pc' = "sleep" /\ passEnd' = "raised"
               /\ UNCHANGED <<row_idx, last_row>>
          ELSE LET n == Len(col_values(sheet)) IN
               /\ last_row' = n
               /\ row_idx' = 2
               /\ pc' = IF n < 2 THEN "sleep" ELSE "loop"
               /\ passEnd' = IF n < 2 THEN "returned" ELSE "none"
    /\ UNCHANGED <<sheet, market>>

\* One iteration of run_once's while (lines 202-208), and the loop test that
\* follows it; an exception leaves run_once and is caught in main (221).
Iterate(Inputs) ==
    /\ pc = "loop"
    /\ row_idx <= last_row
    /\ \E inp \in Inputs :
          LET e == process_row(sheet, row_idx, inp)
              removed == e.ret = "True"
              nextIdx == IF removed THEN row_idx ELSE row_idx + 1
              nextLast == IF removed THEN last_row - 1 ELSE last_row
          IN  /\ sheet' = e.ws
              /\ last' = [e EXCEPT !.ws = <<>>]
              /\ visits' = [visits EXCEPT ![e.id] = @ + 1]
              /\ accepted' = IF e.orderAccepted THEN accepted \cup {e.id} ELSE accepted
              /\ IF e.ret = "raise"
                 THEN /\ pc' = "sleep" /\ passEnd' = "raised"
                      /\ UNCHANGED <<row_idx, last_row>>
                 ELSE /\ row_idx' = nextIdx
                      /\ last_row' = nextLast
                      /\ pc' = IF nextIdx <= nextLast THEN "loop" ELSE "sleep"
                      /\ passEnd' = IF nextIdx <= nextLast THEN "none" ELSE "returned"
    /\ UNCHANGED <<passes, startIds, market>>

-----------------------------------------------------------------------------
(* Sheets and environment inputs *)

Header ==
    [id |-> 0, ticker |-> "Ticker", cost |-> TextCell, hwm |-> TextCell,
     action |-> "Action", trigger |-> "Trigger", time |-> "Updated"]

Row(id, ticker, cost, hwm) ==
    [id |-> id, ticker |-> ticker, cost |-> cost, hwm |-> hwm,
     action |-> "", trigger |-> "", time |-> ""]

Cost100 == 100 * Dollar

Held == [ok |-> TRUE, qty |-> 10]
QtyResults ==
    {[ok |-> FALSE, qty |-> 0]} \cup {[ok |-> TRUE, qty |-> q] : q \in {-5, 0, 10}}

\* 96.9, 97, 97.0000002, 100, 103.8, 104, 104.9999998, 105, 106, 107.8,
\* 107.8000002, 110, 110.0000004, 110.0000006
Prices ==
    {Cents(9690), Cents(9700), Cents(9700) + 1, Cents(10000), Cents(10380),
     Cents(10400), Cents(10500) - 1, Cents(10500), Cents(10600), Cents(10780),
     Cents(10780) + 1, Cents(11000), Cents(11000) + 2, Cents(11000) + 3}

Faults ==
    {[at |-> k, sticky |-> FALSE] : k \in SiteTicker..(SiteErrWrite + 2)}
        \cup {[at |-> k, sticky |-> TRUE] : k \in SiteWrite..(SiteWrite + 2)}

\* Inputs of one evaluation in the decision specification: every quantity,
\* price and order result with a working store, the feed answering or not;
\* every store fault with a held position; every early store fault with any
\* quantity; every number of feed failures.
EvalInputs ==
    [qty : QtyResults, fails : {0, MaxAttempts}, price : Prices, orderOk : BOOLEAN,
     fault : {NoFault}]
        \cup [qty : {Held}, fails : {0}, price : Prices, orderOk : BOOLEAN, fault : Faults]
        \cup [qty : QtyResults, fails : {0}, price : {Cents(10000)}, orderOk : {TRUE},
              fault : {[at |-> k, sticky |-> FALSE] : k \in SiteTicker..(SiteWrite + 2)}]
        \cup [qty : {Held}, fails : 1..MaxPriceFailures,
              price : {Cents(10000), Cents(11000)}, orderOk : {TRUE},
              fault : {NoFault, [at |-> SiteWrite, sticky |-> FALSE]}]

\* Inputs of one evaluation in the loop specification
LoopInputs ==
    [qty : {Held, [ok |-> FALSE, qty |-> 0]}, fails : {0},
     price : {Cents(9690), Cents(10000)}, orderOk : BOOLEAN,
     fault : {NoFault, [at |-> SiteDelete, sticky |-> FALSE],
              [at |-> SiteWrite, sticky |-> FALSE], [at |-> SiteTicker, sticky |-> FALSE]}]

\* Inputs of one evaluation in the price-feed specification: the feed failing
\* any number of times before it answers, or for good
FeedInputs ==
    [qty : {Held}, fails : 0..MaxPriceFailures, price : {Cents(9690), Cents(10600)},
     orderOk : BOOLEAN, fault : {NoFault, [at |-> SiteWrite, sticky |-> FALSE]}]

Tickers == <<"AAA", "BBB", "CCC", "DDD", "EEE", "FFF">>

\* The environment of a run: the price and the holdings move freely between
\* evaluations, or stay at one quote (no external change) for the whole run
Moving == [steady |-> FALSE, qty |-> Held, price |-> 0]
Steady(q, p) == [steady |-> TRUE, qty |-> q, price |-> p]

\* Inputs of one evaluation in a steady market: the quote of the run, the
\* feed answering, any order result, the store working or raising once
SteadyInputs ==
    [qty : {market.qty}, fails : {0}, price : {market.price}, orderOk : BOOLEAN,
     fault : {NoFault} \cup {[at |-> k, sticky |-> FALSE] : k \in SiteHwmRead..(SiteWrite + 2)}]

InitCommon ==
    /\ market = Moving
    /\ pc = "sleep"
    /\ row_idx = 2
    /\ last_row = 0
    /\ passes = 0
    /\ passEnd = "none"
    /\ last = NoEval
    /\ startIds = <<>>
    /\ visits = NoVisits
    /\ accepted = {}

\* Decision specification: a sheet with one data row, of any ticker and cost
\* cell, fresh or left armed by an earlier run
Init ==
    /\ \E t \in {"", "  ", " abc ", "XYZ"} :
       \E c \in {EmptyCell, BlankCell, TextCell, NumCell(0), NumCell(Cost100)} :
       \E h \in {EmptyCell, NumCell(110 * Dollar)} :
          sheet = <<Header, Row(1, t, c, h)>>
    /\ InitCommon

\* Loop specification: an empty sheet, or a header and up to MaxRows fresh
\* data rows, each with a ticker or none
InitLoop ==
    /\ \/ sheet = <<>>
       \/ \E n \in 0..MaxRows :
          \E blank \in SUBSET (1..n) :
             sheet = <<Header>> \o
                     [k \in 1..n |-> Row(k, IF k \in blank THEN "" ELSE Tickers[k],
                                         NumCell(Cost100), EmptyCell)]
    /\ InitCommon

\* Price-feed specification: a header and two data rows, each fresh or left
\* armed by an earlier run
InitFeed ==
    /\ \E h \in [1..2 -> {EmptyCell, NumCell(110 * Dollar)}] :
          sheet = <<Header>> \o [k \in 1..2 |-> Row(k, Tickers[k], NumCell(Cost100), h[k])]
    /\ InitCommon

\* Steady-market specification: one data row with a ticker, any cost cell,
\* fresh or left armed by an earlier run, and one quote for the whole run
InitSteady ==
    /\ \E c \in {TextCell, NumCell(0), NumCell(Cost100)} :
       \E h \in {EmptyCell, NumCell(110 * Dollar)} :
          sheet = <<Header, Row(1, "XYZ", c, h)>>
    /\ \E q \in QtyResults : \E p \in Prices : market = Steady(q, p)
    /\ pc = "sleep"
    /\ row_idx = 2
    /\ last_row = 0
    /\ passes = 0
    /\ passEnd = "none"
    /\ last = NoEval
    /\ startIds = <<>>
    /\ visits = NoVisits
    /\ accepted = {}

Next == StartPass \/ Iterate(EvalInputs)

Spec == Init /\ [][Next]_vars

NextLoop == StartPass \/ Iterate(LoopInputs)

SpecLoop == InitLoop /\ [][NextLoop]_vars

\* Scheduler specification: a header and two fresh data rows; evaluations
\* that hold or sell, with the store raising at a read, at a write or at the
\* delete.  Fairness: time.sleep returns, so main starts the next pass (weak
\* fairness of StartPass), and every collaborator call returns or raises, so
\* an iteration of the while that has begun is completed: weak fairness of
\* Iterate, written with its enabling condition pc = "loop" spelled out.
MainInputs ==
    [qty : {Held}, fails : {0}, price : {Cents(9690), Cents(10000)}, orderOk : {TRUE},
     fault : {NoFault, [at |-> SiteTicker, sticky |-> FALSE],
              [at |-> SiteWrite, sticky |-> FALSE], [at |-> SiteDelete, sticky |-> FALSE]}]

InitMain ==
    /\ sheet = <<Header>> \o [k \in 1..2 |-> Row(k, Tickers[k], NumCell(Cost100), EmptyCell)]
    /\ InitCommon

NextMain == StartPass \/ Iterate(MainInputs)

IterateFair == []<>(pc # "loop") \/ []<><<Iterate(MainInputs)>>_vars

SpecMain == InitMain /\ [][NextMain]_vars /\ WF_vars(StartPass) /\ IterateFair

NextSteady == StartPass \/ Iterate(SteadyInputs)

SpecSteady == InitSteady /\ [][NextSteady]_vars

NextFeed == StartPass \/ Iterate(FeedInputs)

SpecFeed == InitFeed /\ [][NextFeed]_vars

-----------------------------------------------------------------------------
(* Shorthands for the claims *)

Returned == last.ret \in {"None", "True", "False"}
DataIds(ws) == [k \in 1..(Len(ws) - 1) |-> ws[k + 1].id]
StartSet == {startIds[k] : k \in 1..Len(startIds)}
InStart(x) == x \in StartSet
NotAccepted(x) == x \notin accepted

-----------------------------------------------------------------------------
(* C1: in a pass of run_once that runs to its end, every data row 2..N of  *)
(* the start of the pass is passed to process_row exactly once, whether it *)
(* is removed or stays: none is skipped, none is processed twice.          *)
(* Refuted by the code: when delete_rows raises after an accepted sell,    *)
(* remove_row swallows it and process_row still returns True, so the row   *)
(* left in place is processed again and the last row is never reached.     *)
C1_EveryRowOnce ==
    passEnd = "returned" => \A k \in 1..Len(startIds) : visits[startIds[k]] = 1

(* C2: after a pass that runs to its end the sheet holds exactly the rows  *)
(* of its start minus those whose sell order was accepted in the pass, in  *)
(* their original order.  Refuted by the code: a row whose order was       *)
(* accepted stays when delete_rows raises, or when the write of the SELL   *)
(* cells raises and the handler records SELL ERROR.                        *)
C2_RemovedIffSold ==
    passEnd = "returned" =>
        SelectSeq(DataIds(sheet), InStart) = SelectSeq(startIds, NotAccepted)

-----------------------------------------------------------------------------
(* The claims' own arithmetic on the latest evaluation, written from the   *)
(* thresholds and not through the operators of process_row                 *)

\* changePct = (price - cost) / cost * 100 against k, for a cost above zero
ChangeGeq(k) == CmpScaled(100, last.price - last.cost.v, k, last.cost.v) >= 0
ChangeLeq(k) == CmpScaled(100, last.price - last.cost.v, k, last.cost.v) <= 0
\* price <= H * (1 - TRAIL_PCT / 100) for the mark H read at the start
UnderTrail == CmpScaled(100, last.price, 100 - TRAIL_PCT, last.hwmRead.v) <= 0
\* the evaluation resolved cost, quantity and price and read a mark that an
\* earlier evaluation left with the action ARMED
ReadArmedMark ==
    last.priceOk /\ last.hwmRead.some /\ last.actionBefore = "ARMED"

\* the evaluation resolved the price and read a mark
ReadArmedMarkValue == last.priceOk /\ last.hwmRead.some

C4_HardStop ==
    /\ (last.decided /\ last.sellKind # "TRAIL" /\ ChangeLeq(-STOP_LOSS_PCT)) =>
          /\ last.sellKind = "STOP"
          /\ last.orderQty = last.held
          /\ (last.orderAccepted /\ Returned) =>
                (last.action = "SELL: STOP" /\ last.ret = "True")
    /\ (last.decided /\ last.sellKind # "TRAIL" /\ ~ChangeLeq(-STOP_LOSS_PCT)) =>
          last.sellKind = ""

-----------------------------------------------------------------------------
\* the row the latest evaluation was about, when it is still at its index
LastRow == sheet[last.idx]
MarkPresent(cell) == cell.kind # "empty"

(* C5 as claimed: after every evaluation that is not a sell (SKIP, NO      *)
(* POSITION, PRICE ERROR, HOLD, ARMED, SELL ERROR) the row's high-water-   *)
(* mark cell is non-empty if and only if the action it recorded is ARMED.  *)
(* Refuted: SKIP, NO POSITION and PRICE ERROR return before the mark is    *)
(* looked at and leave a mark in place, and a failed trailing sell records *)
(* SELL ERROR over the mark of the arming step.                            *)
C5_Original ==
    (last.ret \in {"None", "False"} /\ last.ticker # "") =>
        (MarkPresent(LastRow.hwm) <=> LastRow.action = "ARMED")

(* C5 amended: after an evaluation that records HOLD or ARMED the mark     *)
(* cell is non-empty if and only if the action is ARMED; one that records  *)
(* SKIP, NO POSITION or PRICE ERROR leaves the mark cell as it was; one    *)
(* that records SELL ERROR leaves it as the arming step set it (non-empty  *)
(* exactly when the arming step's candidate was ARMED).                    *)
C5_MarkIffArmed ==
    /\ last.action \in {"HOLD", "ARMED"} =>
          (MarkPresent(LastRow.hwm) <=> last.action = "ARMED")
    /\ last.action \in {"SKIP", "NO POSITION", "PRICE ERROR"} =>
          LastRow.hwm = last.hwmBefore
    /\ last.action = "SELL ERROR" =>
          (MarkPresent(LastRow.hwm) <=> last.armAction = "ARMED")

\* a row armed earlier, evaluated below the arm threshold: HOLD, mark cleared
C5_Witness ==
    /\ last.action = "HOLD" /\ last.ret = "False"
    /\ MarkPresent(last.hwmBefore) /\ ~MarkPresent(LastRow.hwm)

(* C6: across the evaluations of a row the stored high-water mark is only  *)
(* raised or cleared: when it is present before an evaluation and present  *)
(* after it, the new value is at least the old one.                        *)
C6_MarkNeverLowered ==
    [][\A i \in 2..Len(sheet) :
          (i <= Len(sheet') /\ sheet'[i].id = sheet[i].id
             /\ sheet[i].hwm.kind = "num" /\ sheet'[i].hwm.kind = "num")
          => sheet'[i].hwm.val >= sheet[i].hwm.val]_vars

\* an armed row whose mark an evaluation at a higher price raised
C6_Witness ==
    /\ last.decided /\ last.hwmRead.some /\ last.hwmWritten
    /\ last.armAction = "ARMED" /\ last.ret = "False"
    /\ LastRow.hwm.kind = "num" /\ LastRow.hwm.val > last.hwmRead.v

(* C7: for a row whose held quantity is <= 0 when it is evaluated,         *)
(* process_row submits no sell order, does not write the high-water mark,  *)
(* does not record ARMED, and neither signals removal nor deletes the row. *)
C7_NoPositionInert ==
    (last.qtyAsked /\ last.held <= 0) =>
        /\ last.sellKind = "" /\ ~last.orderAccepted
        /\ ~last.hwmWritten /\ LastRow.hwm = last.hwmBefore
        /\ last.action # "ARMED"
        /\ last.ret # "True" /\ ~last.deleted /\ LastRow.id = last.id

\* an armed row whose position is gone: NO POSITION, mark untouched
C7_Witness ==
    /\ last.qtyAsked /\ last.held <= 0 /\ last.ret = "None"
    /\ last.action = "NO POSITION" /\ MarkPresent(LastRow.hwm)

-----------------------------------------------------------------------------
\* a cost cell that is absent, blank, non-numeric or zero
InvalidCostCell(c) == c.kind \in {"empty", "blank", "text"} \/ (c.kind = "num" /\ c.val = 0)
\* a cost cell holding a number other than zero
ValidCostCell(c) == c.kind = "num" /\ c.val # 0

(* C8 as claimed: every evaluation of a record whose held quantity is <= 0 *)
(* ends NO POSITION with reason "Qty=0", whatever the price and whatever   *)
(* the cost, an absent, non-numeric or zero cost included.                 *)
(* Refuted: the cost is checked first, so with an invalid cost the         *)
(* evaluation ends SKIP and the quantity is never asked for.               *)
C8_Original ==
    (last.ticker # "" /\ last.held <= 0 /\ Returned) =>
        (last.action = "NO POSITION" /\ last.trigger = "Qty=0")

(* C8 amended: every evaluation of a record with a valid cost whose held   *)
(* quantity is <= 0 ends NO POSITION with reason "Qty=0", whatever the     *)
(* price, a failing price fetch included: the price is not asked for.      *)
C8_NoPosition ==
    (last.ticker # "" /\ last.held <= 0 /\ Returned /\ ValidCostCell(LastRow.cost)) =>
        /\ last.action = "NO POSITION" /\ last.trigger = "Qty=0"
        /\ last.ret = "None" /\ ~last.priceAsked

\* no position held while the price feed is down: NO POSITION all the same
C8_Witness ==
    /\ last.held <= 0 /\ last.feedFails >= MaxAttempts
    /\ last.action = "NO POSITION" /\ last.trigger = "Qty=0" /\ last.ret = "None"

(* C9: an evaluation of a row with a non-empty ticker whose cost cell is   *)
(* absent, non-numeric or zero leaves the high-water-mark, ticker and cost *)
(* cells unchanged, consults neither quantity nor price, submits no sell   *)
(* and removes nothing; when it returns, its outcome is SKIP with reason   *)
(* "Invalid cost" and the cursor advances by one.                          *)
C9_InvalidCostSkip ==
    [][(/\ pc = "loop"
        /\ sheet[row_idx].ticker \notin {"", "  "}
        /\ InvalidCostCell(sheet[row_idx].cost))
       =>
       (/\ Len(sheet') = Len(sheet)
        /\ sheet'[row_idx].id = sheet[row_idx].id
        /\ sheet'[row_idx].hwm = sheet[row_idx].hwm
        /\ sheet'[row_idx].ticker = sheet[row_idx].ticker
        /\ sheet'[row_idx].cost = sheet[row_idx].cost
        /\ ~last'.qtyAsked /\ ~last'.priceAsked
        /\ last'.sellKind = "" /\ ~last'.deleted
        /\ \/ last'.ret = "raise"
           \/ /\ last'.ret = "None"
              /\ sheet'[row_idx].action = "SKIP"
              /\ sheet'[row_idx].trigger = "Invalid cost"
              /\ row_idx' = row_idx + 1)]_vars

\* a zero cost on a row that carries a mark: SKIP, the mark still there
C9_Witness ==
    /\ last.action = "SKIP" /\ last.trigger = "Invalid cost" /\ last.ret = "None"
    /\ LastRow.cost = NumCell(0) /\ MarkPresent(LastRow.hwm)
    /\ row_idx = last.idx + 1

(* C10: when a sell condition fires and the order submission fails, the    *)
(* evaluation records SELL ERROR with a note that starts with the trigger  *)
(* kind, the row is not removed, the cursor advances and the mark cell     *)
(* holds what the arming step left; a row recorded SELL ERROR is evaluated *)
(* again in the next pass that runs to its end, and when the trigger still *)
(* holds with quantity held the sell is attempted again.                   *)
(* Refuted by the code: a pass in which an earlier row's delete_rows       *)
(* raises after its sell returns without reaching the last row, so a SELL  *)
(* ERROR row there is not evaluated in that pass.                          *)
C10_SellErrorRetry ==
    /\ (last.sellKind # "" /\ ~last.orderAccepted /\ last.ret = "False") =>
          /\ last.action = "SELL ERROR"
          /\ last.trigger = (IF last.sellKind = "TRAIL" THEN "TRAIL: err" ELSE "STOP: err")
          /\ ~last.deleted /\ LastRow.id = last.id
          /\ row_idx = last.idx + 1
          /\ MarkPresent(LastRow.hwm) <=> last.hwmArm.some
          /\ last.hwmWritten \/ LastRow.hwm = last.hwmBefore
    /\ (/\ last.actionBefore = "SELL ERROR" /\ last.decided
        /\ \/ ChangeLeq(-STOP_LOSS_PCT)
           \/ ReadArmedMarkValue /\ ChangeGeq(PROFIT_ARM_PCT) /\ UnderTrail)
       => last.sellKind # ""
    /\ passEnd = "returned" =>
          \A i \in 2..Len(sheet) :
             (sheet[i].action = "SELL ERROR" /\ InStart(sheet[i].id))
                => visits[sheet[i].id] >= 1

-----------------------------------------------------------------------------
(* C11: the price fetch of a row is attempted at most 5 times and returns  *)
(* the first successful result; when all 5 attempts fail the evaluation    *)
(* leaves the mark, the ticker and the cost of the row and every other row *)
(* as they were, submits no sell and removes nothing, and when it returns  *)
(* its outcome is PRICE ERROR with the failure's text, the cursor advances *)
(* by one and the pass goes on with the next row or returns after the last *)
(* one: the price failure does not abort the pass.                         *)
C11_PriceRetry ==
    [][(pc = "loop" /\ last'.priceAsked)
       =>
       (/\ last'.attempts <= MaxAttempts
        /\ last'.feedFails < MaxAttempts =>
              (last'.priceOk /\ last'.attempts = last'.feedFails + 1 /\ last'.decided)
        /\ last'.feedFails >= MaxAttempts =>
              /\ ~last'.priceOk /\ last'.attempts = MaxAttempts /\ ~last'.decided
              /\ Len(sheet') = Len(sheet)
              /\ \A j \in 1..Len(sheet) : j # row_idx => sheet'[j] = sheet[j]
              /\ sheet'[row_idx].id = sheet[row_idx].id
              /\ sheet'[row_idx].hwm = sheet[row_idx].hwm
              /\ sheet'[row_idx].ticker = sheet[row_idx].ticker
              /\ sheet'[row_idx].cost = sheet[row_idx].cost
              /\ last'.sellKind = "" /\ ~last'.orderAccepted /\ ~last'.deleted
              /\ \/ last'.ret = "raise" /\ last'.w1 < 3
                 \/ /\ last'.ret = "None"
                    /\ sheet'[row_idx].action = "PRICE ERROR"
                    /\ sheet'[row_idx].trigger = "ERR"
                    /\ row_idx' = row_idx + 1 /\ last_row' = last_row
                    /\ passEnd' # "raised"
                    /\ pc' = (IF row_idx < last_row THEN "loop" ELSE "sleep"))]_vars

\* five failed attempts on a row that is not the last: PRICE ERROR, the pass
\* goes on with the next row
C11_Witness ==
    /\ last.priceAsked /\ last.feedFails >= MaxAttempts /\ last.attempts = MaxAttempts
    /\ last.action = "PRICE ERROR" /\ last.ret = "None"
    /\ pc = "loop" /\ row_idx = last.idx + 1 /\ row_idx <= last_row

-----------------------------------------------------------------------------
(* C12: a failing pass never ends the scheduler.  When run_once raises, at *)
(* the read of the ticker column or at any row, main catches the error and *)
(* is back in its wait; another pass is eventually started after it (up to *)
(* the MaxPasses passes the model lets main start); and a pass starts only *)
(* when the one before it has returned or raised, so passes never overlap. *)
C12_SchedulerSurvives ==
    /\ [](passEnd = "raised" => pc = "sleep")
    /\ [][passes' # passes =>
             (pc = "sleep" /\ (passes = 0 \/ passEnd \in {"returned", "raised"})
                /\ passes' = passes + 1)]_vars
    /\ \A k \in 0..(MaxPasses - 1) :
          (passes = k /\ passEnd = "raised") ~> (passes = k + 1)

\* a second or later pass that raised at a row after the first, main waiting
\* to start the next one
C12_Witness ==
    /\ passes >= 2 /\ passes < MaxPasses
    /\ passEnd = "raised" /\ pc = "sleep"
    /\ last.ret = "raise" /\ last.idx > 2

-----------------------------------------------------------------------------
\* how many times the latest evaluation wrote the n-th cell of the action,
\* trigger-note, last-updated triple
TimesWritten(n) ==
    (IF last.w1 >= n THEN 1 ELSE 0) + (IF last.w2 >= n THEN 1 ELSE 0)

(* C13: every evaluation of a row with a non-empty ticker that returns, on *)
(* whatever branch, has written the action, trigger-note and last-updated  *)
(* cells of the row exactly once each; an evaluation of a row with an      *)
(* empty ticker writes nothing.  Refuted by the code: when the order is    *)
(* accepted and the write of the SELL cells raises after its first or      *)
(* second cell, the handler writes SELL ERROR over them and the evaluation *)
(* returns having written the action cell twice.                           *)
C13_WriteOnce ==
    /\ (last.ticker # "" /\ Returned) =>
          \A n \in 1..3 : TimesWritten(n) = 1
    /\ (last.ret = "None" /\ last.ticker = "") =>
          (last.writeCalls = 0 /\ \A n \in 1..3 : TimesWritten(n) = 0)

-----------------------------------------------------------------------------
(* C14: idempotence.  When an evaluation of a row has yielded HOLD or      *)
(* ARMED, an evaluation of the same row with the same cost, price and held *)
(* quantity (a steady market) that returns yields the same action and      *)
(* leaves the high-water-mark cell as the first one left it: present with  *)
(* the same value, or absent; it attempts no sell.                         *)
C14_Idempotent ==
    (market.steady /\ last.actionBefore \in {"HOLD", "ARMED"} /\ Returned) =>
        /\ last.ret = "False" /\ last.sellKind = ""
        /\ last.action = last.actionBefore
        /\ LastRow.hwm = last.hwmBefore

\* armed at 110.0000004, the mark stored as 110.000000; evaluated again at the
\* same price: ARMED again, the mark rewritten with the same text
C14_Witness ==
    /\ market.steady /\ market.price = Cents(11000) + 2
    /\ last.actionBefore = "ARMED" /\ last.hwmBefore = NumCell(110 * Dollar)
    /\ last.price = market.price /\ last.hwmWritten
    /\ last.action = "ARMED" /\ last.ret = "False"
    /\ LastRow.hwm = last.hwmBefore

-----------------------------------------------------------------------------
(* C15: de-arming.  An evaluation that reads the mark H of a row an        *)
(* earlier evaluation armed, at a price p with changePct < PROFIT_ARM_PCT  *)
(* and p > H * (1 - TRAIL_PCT / 100), and returns, has cleared the mark    *)
(* cell, recorded HOLD, submitted no sell and left the row in place.       *)
C15_DeArm ==
    (ReadArmedMark /\ Returned /\ ~ChangeGeq(PROFIT_ARM_PCT) /\ ~UnderTrail) =>
        /\ last.action = "HOLD" /\ last.ret = "False"
        /\ last.sellKind = "" /\ ~last.orderAccepted
        /\ ~last.deleted /\ LastRow.id = last.id
        /\ LastRow.hwm = EmptyCell /\ LastRow.action = "HOLD"

\* cost 100, armed at 106, evaluated at 104 (above 106 * 0.98 = 103.88):
\* HOLD, the mark cleared
C15_Witness ==
    /\ ReadArmedMark /\ last.cost.v = Cost100
    /\ last.hwmRead.v = 106 * Dollar /\ last.price = Cents(10400)
    /\ last.action = "HOLD" /\ last.ret = "False"
    /\ LastRow.hwm = EmptyCell /\ LastRow.id = last.id

-----------------------------------------------------------------------------
\* the arming step of the latest evaluation set or raised the mark to the
\* current price
MarkSetToPrice == last.decided /\ last.hwmWritten /\ last.armAction = "ARMED"
\* ... and the trailing check of that same evaluation fired
ArmThenSell == MarkSetToPrice /\ last.sellKind = "TRAIL"

\* Cost and mark cells an evaluation can find: costs of 90, 100 and 110,
\* and no mark or a mark at, just under or just over any price of the
\* model, as written (six decimals) or exact
AnyCosts == {NumCell(90 * Dollar), NumCell(Cost100), NumCell(110 * Dollar)}
AnyMarks ==
    {EmptyCell} \cup {NumCell(p + d) : p \in Prices, d \in {-1, 0, 1}}
        \cup {Format6(p) : p \in Prices}

(* C16 as claimed: arm-then-sell in one evaluation is possible; the        *)
(* evaluation just made, or an evaluation that can be made, of a row with  *)
(* some cost and some mark or none, at some positive price, held quantity  *)
(* and order result, is one in which the arming step sets or raises the    *)
(* mark to the current price and the trailing check of that same           *)
(* evaluation fires.  Refuted in the first state already: process_row has  *)
(* no such evaluation, on any cost, mark and input, reachable or not.      *)
C16_Original ==
    \/ ArmThenSell
    \/ \E c \in AnyCosts : \E h \in AnyMarks : \E inp \in EvalInputs :
          LET e == process_row(<<Header, Row(1, "XYZ", c, h)>>, 2, inp)
          IN  e.decided /\ e.hwmWritten /\ e.armAction = "ARMED" /\ e.sellKind = "TRAIL"

(* C16 amended: arm-then-sell in one evaluation is not possible.  In every *)
(* evaluation in which the arming step sets or raises the mark to the      *)
(* current price the trailing check compares the price with itself less    *)
(* TRAIL_PCT percent and does not fire: no sell is attempted and, when the *)
(* evaluation returns, it ends ARMED.  A trailing sell is attempted only   *)
(* against a mark read from the store and left as it was by the arming     *)
(* step, which is above the price.                                         *)
C16_NoArmThenSell ==
    /\ MarkSetToPrice =>
          /\ last.sellKind = "" /\ ~last.orderAccepted
          /\ Returned => (last.action = "ARMED" /\ last.ret = "False")
    /\ last.sellKind = "TRAIL" =>
          (~last.hwmWritten /\ last.hwmRead.some /\ last.hwmRead.v > last.price)

\* a row armed at 106 whose mark an evaluation at 110 raises: it ends ARMED,
\* with no sell
C16_Witness ==
    /\ MarkSetToPrice /\ last.hwmRead = Some(106 * Dollar) /\ last.price = Cents(11000)
    /\ LastRow.hwm = NumCell(110 * Dollar)
    /\ last.sellKind = "" /\ last.action = "ARMED" /\ last.ret = "False"

-----------------------------------------------------------------------------
\* process_row calls of the current pass, over all row identities
RECURSIVE CallsUpTo(_)
CallsUpTo(k) == IF k < 0 THEN 0 ELSE visits[k] + CallsUpTo(k - 1)
Calls == CallsUpTo(MaxRows)
\* the ticker-column length at the start of the pass, when it is at least 1
PassN == Len(startIds) + 1

(* C17: run_once terminates.  With N the ticker-column length at its       *)
(* start, a pass with N < 2 returns at once with no process_row call and   *)
(* the sheet untouched; otherwise every iteration that returns either      *)
(* advances the cursor by one or decrements the tracked live-row count by  *)
(* one, the number of calls made so far is (cursor - 2) + (N - count), a   *)
(* pass that runs to its end has made exactly N - 1 calls, and every call  *)
(* addresses an index from 2 to N.                                         *)
C17_RunOnceTerminates ==
    /\ [](passEnd = "returned" =>
             Calls = (IF PassN < 2 THEN 0 ELSE PassN - 1))
    /\ []((pc = "loop" \/ passEnd = "returned") /\ Len(startIds) >= 1 =>
             /\ Calls = (row_idx - 2) + (PassN - last_row)
             /\ 2 <= row_idx /\ row_idx <= last_row + 1 /\ last_row <= PassN)
    /\ [](pc = "loop" => (2 <= row_idx /\ row_idx <= last_row /\ row_idx <= PassN))
    /\ [](last.ret # "none" => (2 <= last.idx /\ last.idx <= PassN))
    /\ [][(pc = "sleep" /\ passEnd' = "returned" /\ pc' = "sleep") =>
             (sheet' = sheet /\ Len(col_values(sheet)) < 2 /\ last'.ret = "none")]_vars
    /\ [][(pc = "loop" /\ last'.ret # "raise") =>
             \/ row_idx' = row_idx + 1 /\ last_row' = last_row
             \/ row_idx' = row_idx /\ last_row' = last_row - 1]_vars

\* a pass over N = 4 that sold a row, kept the others and returned after
\* three calls
C17_Witness ==
    /\ passEnd = "returned" /\ PassN = 4 /\ Calls = 3
    /\ last_row = 3 /\ row_idx = 4 /\ Len(sheet) = 3

-----------------------------------------------------------------------------
\* rows of the start of the pass that are no longer in the sheet
DeletedInPass ==
    Cardinality({x \in StartSet : \A i \in 1..Len(sheet) : sheet[i].id # x})

(* C18: the removal signal is truthful.  process_row returns True only     *)
(* when the row at that index has been deleted from the sheet, a failing   *)
(* delete after an accepted sell included; so the tracked live-row count   *)
(* always equals the count at the start of the pass minus the rows deleted *)
(* in it.  Refuted by the code: remove_row swallows the exception of       *)
(* delete_rows and process_row returns True all the same.                  *)
C18_TruthfulRemoval ==
    /\ last.ret = "True" => last.deleted
    /\ ((pc = "loop" \/ passEnd = "returned") /\ Len(startIds) >= 1) =>
          last_row = PassN - DeletedInPass

-----------------------------------------------------------------------------
(* C19: whenever process_row attempts a trailing-stop liquidation,         *)
(* changePct >= PROFIT_ARM_PCT holds in that evaluation and the mark read  *)
(* at its start was present and strictly above the current price; at a     *)
(* resolved price with changePct < PROFIT_ARM_PCT no trailing sell is      *)
(* attempted and an evaluation that returns has cleared a stored mark.     *)
C19_TrailOnlyArmed ==
    /\ last.sellKind = "TRAIL" =>
          /\ ChangeGeq(PROFIT_ARM_PCT)
          /\ last.hwmRead.some /\ last.hwmRead.v > last.price
    /\ (last.priceOk /\ ~ChangeGeq(PROFIT_ARM_PCT)) => last.sellKind # "TRAIL"
    /\ (last.priceOk /\ ~ChangeGeq(PROFIT_ARM_PCT) /\ Returned) =>
          /\ ~last.hwmArm.some
          /\ last.hwmRead.some => last.hwmWritten
          /\ ~last.deleted => LastRow.hwm = EmptyCell

\* a trailing sell at 107.8 against the mark 110 that the venue rejects:
\* SELL ERROR with the TRAIL note, changePct = 7.8
C19_Witness ==
    /\ last.sellKind = "TRAIL" /\ ~last.orderAccepted
    /\ last.action = "SELL ERROR" /\ last.trigger = "TRAIL: err" /\ last.ret = "False"
    /\ last.hwmRead = Some(110 * Dollar) /\ last.price = Cents(10780)

-----------------------------------------------------------------------------
(* C20: an evaluation records SELL ERROR only when the submission of the   *)
(* market sell itself failed, that is, when the venue accepted no order in *)
(* that evaluation; a failure of the store write that follows an accepted  *)
(* order never leaves the row recorded as SELL ERROR and kept.  Refuted by *)
(* the code: write_row_cells is inside the try of the sell, so its         *)
(* exception after an accepted order is handled as a failed sell.          *)
C20_SellErrorMeansNoOrder ==
    /\ last.action = "SELL ERROR" => ~last.orderAccepted
    /\ (last.orderAccepted /\ Returned) => last.ret = "True"

====
